---- MODULE Spec2Model ----
(***************************************************************************)
(* Progomatter (src/progomatter.py): the synchronization engine that       *)
(* mirrors a filtered subset of a project tree into a staging directory,   *)
(* and the watcher / queue / poll machinery that re-runs it.               *)
(*                                                                         *)
(* Strings are sequences of characters, so that joining, appending ".txt", *)
(* glob matching and substring tests are computed on the characters as the *)
(* code computes them; the stem of a fixed name of the application, which  *)
(* occurs in no other name, is written as one element.  A path is a        *)
(* sequence of names.                                                      *)
(* The file system is one function from absolute paths to nodes, so that a *)
(* project root that overlaps the staging directory aliases it as on disk. *)
(* Symbolic links are not modelled: Path.resolve() is the identity.        *)
(* Both optional libraries (watchdog, pathspec) are taken to be installed. *)
(***************************************************************************)
EXTENDS Integers, Sequences, FiniteSets, TLC

VARIABLES
    fs,                          \* absolute path -> [kind, data]
    projects,                    \* self.projects
    selected_project,            \* self.selected_project (set = FALSE: None)
    gitignore_spec,              \* self.gitignore_spec (<<>>: None or empty)
    include_patterns,            \* self.include_patterns
    file_notes,                  \* self.file_notes: set of <<key, note>> pairs
    create_paths_md_var,         \* the four option BooleanVars
    copy_individual_files_var,
    convert_copied_files_var,
    auto_refresh_var,
    watchers,                    \* every Observer created so far, with its handler
    observer,                    \* self.observer: index into watchers, 0 for None
    callback_queue,              \* self.callback_queue
    clock,                       \* time.time(), in ticks
    stack,                       \* foreground call stack of refresh_files frames
    poll_scheduled,              \* a root.after(250, check_queue) timer is pending
    pass,                        \* locals of the refresh_files invocation that walks
    last,                        \* what the last returned pass reported and left
    hist                         \* the environment: I/O faults still to come, edits
                                 \* made, whether the poll timer ran in this tick

vars == <<fs, projects, selected_project, gitignore_spec, include_patterns,
          file_notes, create_paths_md_var, copy_individual_files_var,
          convert_copied_files_var, auto_refresh_var, watchers, observer,
          callback_queue, clock, stack, poll_scheduled, pass, last, hist>>

(***************************************************************************)
(* Bounds of the model.                                                    *)
(***************************************************************************)
MaxFiles == 3        \* source files in the initial project tree
MaxFaults == 1       \* I/O operations the operating system makes fail
MaxTime == 4         \* last clock tick
MaxBurst == 2        \* events the operating system reports for one save
MaxEdits == 2        \* external edits of source files, clicks on the auto-refresh box
MaxObservers == 2    \* observers created and not yet gone

(***************************************************************************)
(* Names.                                                                  *)
(***************************************************************************)
GIT == <<".", "g", "i", "t">>
TEMP_DIR_NAME == <<"progomatter_files">>
INCLUDE_FILE == <<".", "i", "n", "c", "l", "u", "d", "e">>
GITIGNORE_FILE == <<".", "g", "i", "t", "i", "g", "n", "o", "r", "e">>
DOT_MD == <<".", "m", "d">>
CONTEXT_FILE == <<"read this first">> \o DOT_MD
PATHS_MD_FILE == <<"project_file_names_and_locations">> \o DOT_MD
DOT_TXT == <<".", "t", "x", "t">>
NOTES_FILE == <<".progomatter_notes", ".", "j", "s", "o", "n">>

\* tempfile.gettempdir() and self.temp_dir
TempRoot == <<<<"t">>>>
temp_dir == TempRoot \o <<TEMP_DIR_NAME>>

(***************************************************************************)
(* Sequences and strings.                                                  *)
(***************************************************************************)
Last(s) == s[Len(s)]
Front(s) == SubSeq(s, 1, Len(s) - 1)
IsPrefix(p, q) == Len(p) <= Len(q) /\ SubSeq(q, 1, Len(p)) = p
IsStrictPrefix(p, q) == Len(p) < Len(q) /\ SubSeq(q, 1, Len(p)) = p
Range(s) == {s[i] : i \in 1..Len(s)}

\* sep.join(parts)
RECURSIVE Join(_, _)
Join(parts, sep) ==
    IF parts = <<>> THEN <<>>
    ELSE IF Len(parts) = 1 THEN parts[1]
    ELSE parts[1] \o sep \o Join(Tail(parts), sep)

\* needle in haystack, for strings
Contains(haystack, needle) ==
    \E i \in 0..(Len(haystack) - Len(needle)) :
        SubSeq(haystack, i + 1, i + Len(needle)) = needle

\* str.strip() of a line, for the blanks the model's lines can hold
RECURSIVE LStrip(_)
LStrip(s) == IF s # <<>> /\ s[1] = " " THEN LStrip(Tail(s)) ELSE s
RECURSIVE RStrip(_)
RStrip(s) == IF s # <<>> /\ Last(s) = " " THEN RStrip(Front(s)) ELSE s
Strip(s) == RStrip(LStrip(s))

\* all the orders in which a finite set can be enumerated
RECURSIVE Perms(_)
Perms(S) ==
    IF S = {} THEN {<<>>}
    ELSE UNION {{<<x>> \o p : p \in Perms(S \ {x})} : x \in S}

\* fnmatch.fnmatch(name, pattern) on a case-sensitive platform: "*" any run of
\* characters, "?" any one character, anything else itself (the patterns of
\* the model hold no "[...]" class)
RECURSIVE fnmatch(_, _)
fnmatch(name, pattern) ==
    IF pattern = <<>> THEN name = <<>>
    ELSE IF pattern[1] = "*"
        THEN \/ fnmatch(name, Tail(pattern))
             \/ name # <<>> /\ fnmatch(Tail(name), pattern)
    ELSE IF name = <<>> THEN FALSE
    ELSE /\ pattern[1] = "?" \/ pattern[1] = name[1]
         /\ fnmatch(Tail(name), Tail(pattern))

(***************************************************************************)
(* The file system.                                                        *)
(***************************************************************************)
DirNode == [kind |-> "dir", data |-> <<>>]
FileNode(d) == [kind |-> "file", data |-> d]

Exists(f, p) == p \in DOMAIN f
IsDir(f, p) == p \in DOMAIN f /\ f[p].kind = "dir"
IsFile(f, p) == p \in DOMAIN f /\ f[p].kind = "file"
Children(f, d) == {p \in DOMAIN f : Len(p) = Len(d) + 1 /\ IsPrefix(d, p)}
Beneath(f, d) == {p \in DOMAIN f : IsStrictPrefix(d, p)}

\* every directory on the way to p, p excluded
Ancestors(p) == {SubSeq(p, 1, i) : i \in 1..(Len(p) - 1)}

\* open(p, "w") / the destination side of shutil.copy2
WriteFile(f, p, d) ==
    [q \in DOMAIN f \cup {p} |-> IF q = p THEN FileNode(d) ELSE f[q]]
RemoveAll(f, S) == [q \in DOMAIN f \ S |-> f[q]]
MkDirs(f, S) ==
    [q \in DOMAIN f \cup S |-> IF q \in DOMAIN f THEN f[q] ELSE DirNode]

\* shutil.copy2(src, dst) when the operating system lets it through: the
\* resulting file system, or the unchanged one with ok = FALSE where copy2 raises
\* (no such source file, source and destination the same file, no directory to
\* write into, a directory in the way)
Copy2(f, src, dst) ==
    LET real == IF IsDir(f, dst) THEN dst \o <<Last(src)>> ELSE dst
    IN  IF /\ IsFile(f, src)
           /\ real # src
           /\ IsDir(f, Front(real))
           /\ ~IsDir(f, real)
        THEN [ok |-> TRUE, fs |-> WriteFile(f, real, f[src].data)]
        ELSE [ok |-> FALSE, fs |-> f]

\* Path.rename(src, dst) on POSIX: replaces a file at dst, raises when dst is
\* a directory or src is gone
Rename(f, src, dst) ==
    IF IsFile(f, src) /\ ~IsDir(f, dst) /\ IsDir(f, Front(dst))
    THEN [ok |-> TRUE,
          fs |-> IF src = dst THEN f
                 ELSE RemoveAll(WriteFile(f, dst, f[src].data), {src})]
    ELSE [ok |-> FALSE, fs |-> f]

\* Path.unlink() inside "try ... except OSError: pass"
Unlink(f, p) == IF IsFile(f, p) THEN RemoveAll(f, {p}) ELSE f

(***************************************************************************)
(* Pattern loading.                                                        *)
(***************************************************************************)
NoProject == [set |-> FALSE, project_name |-> "", directory |-> <<>>]
ProjectDir == selected_project.directory

\* One line of .gitignore as pathspec's GitWildMatchPattern reads it, for the
\* patterns of the model (a name glob, an optional leading "!", an optional
\* trailing "/").
GitRule(line) ==
    LET neg == line[1] = "!"
        rest == IF neg THEN Tail(line) ELSE line
        dir_only == rest # <<>> /\ Last(rest) = "/"
    IN  [include |-> ~neg,
         dir_only |-> dir_only,
         body |-> IF dir_only THEN Front(rest) ELSE rest]

\* blank lines and comments carry no pattern
PatternLines(lines) ==
    SelectSeq(lines, LAMBDA ln : Strip(ln) # <<>> /\ Strip(ln)[1] # "#")

StripAll(lines) == [i \in 1..Len(lines) |-> Strip(lines[i])]

\* load_gitignore: the new value of self.gitignore_spec for project p
load_gitignore(f, p) ==
    LET path == p.directory \o <<GITIGNORE_FILE>>
    IN  IF p.set /\ IsFile(f, path)
        THEN LET lines == StripAll(PatternLines(f[path].data))
             IN  [i \in 1..Len(lines) |-> GitRule(lines[i])]
        ELSE <<>>

\* load_include_patterns: the new value of self.include_patterns
load_include_patterns(f, p) ==
    LET path == p.directory \o <<INCLUDE_FILE>>
    IN  IF p.set /\ IsFile(f, path)
        THEN StripAll(PatternLines(f[path].data))
        ELSE <<>>

(***************************************************************************)
(* File filtering.                                                         *)
(***************************************************************************)
\* one gitignore pattern against "a/b/c" or "a/b/c/": a pattern without a
\* slash matches its name at any depth, and everything beneath it; with a
\* trailing slash the name has to be a directory's
RuleMatches(rule, rel, is_dir) ==
    \E i \in 1..Len(rel) :
        /\ fnmatch(rel[i], rule.body)
        /\ ~rule.dir_only \/ i < Len(rel) \/ is_dir

\* PathSpec.match_file: the last pattern that matches decides
RECURSIVE match_file(_, _, _)
match_file(spec, rel, is_dir) ==
    IF spec = <<>> THEN FALSE
    ELSE IF RuleMatches(Last(spec), rel, is_dir) THEN Last(spec).include
    ELSE match_file(Front(spec), rel, is_dir)

\* should_ignore leaving .git to the gitignore rules
should_ignore_by_rules_only(path_obj, is_dir) ==
    IF ~selected_project.set THEN FALSE
    ELSE IF path_obj = temp_dir THEN TRUE
    ELSE IF gitignore_spec # <<>>
        THEN IF IsStrictPrefix(ProjectDir, path_obj)
             THEN match_file(gitignore_spec,
                             SubSeq(path_obj, Len(ProjectDir) + 1, Len(path_obj)),
                             is_dir)
             ELSE FALSE
    ELSE FALSE

should_ignore(path_obj, is_dir) ==
    IF ~selected_project.set THEN FALSE
    ELSE IF GIT \in Range(path_obj) THEN TRUE
    ELSE IF path_obj = temp_dir THEN TRUE
    ELSE IF gitignore_spec # <<>>
        THEN IF IsStrictPrefix(ProjectDir, path_obj)
             THEN match_file(gitignore_spec,
                             SubSeq(path_obj, Len(ProjectDir) + 1, Len(path_obj)),
                             is_dir)
             ELSE FALSE
    ELSE FALSE

\* should_include asking every part of the path below the project root, the
\* directory names too, to match a pattern
should_include_every_part(path_obj) ==
    IF include_patterns = <<>> THEN TRUE
    ELSE \A k \in (Len(ProjectDir) + 1)..Len(path_obj) :
            \E i \in 1..Len(include_patterns) :
                fnmatch(path_obj[k], include_patterns[i])

should_include(path_obj) ==
    IF include_patterns = <<>> THEN TRUE
    ELSE \E i \in 1..Len(include_patterns) :
            fnmatch(Last(path_obj), include_patterns[i])

(***************************************************************************)
(* The staging directory.                                                  *)
(***************************************************************************)
Staging(f) == Beneath(f, temp_dir)

\* What clear_temp_folder can leave behind: each item of temp_dir is unlinked
\* or rmtree'd inside its own try, so an item whose deletion raises stays, a
\* directory with any part of its content.  `n` bounds the items that fail.
ClearKeeps(f, n) ==
    {K \in SUBSET Staging(f) :
        /\ \A p \in K : \A a \in Ancestors(p) : IsStrictPrefix(temp_dir, a) => a \in K
        /\ Cardinality({p \in K : Len(p) = Len(temp_dir) + 1}) <= n}

\* clear_temp_folder, leaving K
clear_temp_folder(f, K) ==
    IF ~Exists(f, temp_dir)
    THEN MkDirs(f, {temp_dir})
    ELSE RemoveAll(f, Staging(f) \ K)

\* copy_context_file_to_output: the file system afterwards (a failing copy is
\* logged and changes nothing)
copy_context_file_to_output(f, proj) ==
    IF ~proj.set THEN f
    ELSE IF Exists(f, proj.directory \o <<CONTEXT_FILE>>)
        THEN Copy2(f, proj.directory \o <<CONTEXT_FILE>>,
                   temp_dir \o <<CONTEXT_FILE>>).fs
    ELSE f

\* whether that copy is made
ContextCopied(f, proj) ==
    /\ proj.set
    /\ Exists(f, proj.directory \o <<CONTEXT_FILE>>)
    /\ Copy2(f, proj.directory \o <<CONTEXT_FILE>>, temp_dir \o <<CONTEXT_FILE>>).ok

(***************************************************************************)
(* refresh_files: the locals of the invocation that is walking, and the    *)
(* bookkeeping of what the pass did (accepted .. undeleted).               *)
(***************************************************************************)
IdlePass ==
    [source_dir |-> <<>>, walk |-> <<>>, cur |-> <<>>, files |-> {},
     do_paths_md |-> FALSE, do_copy |-> FALSE, do_convert |-> FALSE,
     paths_md_lines |-> <<>>, files_in_temp |-> {},
     copied_count |-> 0, ignored_git_count |-> 0, ignored_incl_count |-> 0,
     converted_count |-> 0, read_error_count |-> 0, collision_skips |-> 0,
     md_entries |-> 0,
     accepted |-> <<>>,    \* relative paths that passed both filters, in walk order
     visited |-> {},       \* directories listed
     examined |-> {},      \* files the loop body ran for
     ignored_files |-> {}, \* files should_ignore rejected
     pruned |-> {},        \* directories removed from dirs before descent
     copies |-> {},        \* [name, src]: flat copies the pass counts as made
     written |-> {},       \* staging paths this pass wrote
     cleared |-> {},       \* staging paths the reset deleted
     undeleted |-> {},     \* staging paths the reset could not delete
     failed |-> {},        \* files whose copy or rename raised
     before |-> [status |-> "none"]]  \* the pass before this one (PassBefore)

NoLast == [status |-> "none", pass |-> IdlePass]

\* the entries of the staging directory with their contents
StagingContent(f) == [q \in Staging(f) |-> f[q]]

\* What is remembered of the pass before the one that begins on file system
\* f0, where two passes are compared (hist.compare): how it ended, its
\* options, the files it accepted in the order of its walk, the files that
\* failed, and the staging directory as it left it.
PassBefore(f0) ==
    IF hist.compare
    THEN [status |-> last.status,
          do_paths_md |-> last.pass.do_paths_md,
          do_copy |-> last.pass.do_copy,
          do_convert |-> last.pass.do_convert,
          accepted |-> last.pass.accepted,
          failed |-> last.pass.failed,
          out |-> StagingContent(f0)]
    ELSE [status |-> "none"]

Running == stack # <<>>
Top == Last(stack)
Walking == Running /\ Top.pc = "walk"

\* timers fire: the main loop is idle, or a dialog runs its own event loop
EventLoopRuns == IF stack = <<>> THEN TRUE ELSE Top.pc = "dialog"

\* the heading line of a section: three hashes and the path in backquotes
\* (BQ stands for the backquote character)
BQ == "bq"
MdHeading(rel_path_str) == <<"#", "#", "#", " ", BQ>> \o rel_path_str \o <<BQ>>

\* The notes store: the members of the JSON object last loaded, each
\* <<key, value, kind>>, kind being "str" for a JSON string (its text the
\* value) and something else for any other JSON value.
\* The note test of a section raises when the value under the key is no
\* string (it has no strip method).
NoteRaises(rel_path_str) ==
    \E n \in file_notes : n[1] = rel_path_str /\ n[3] # "str"

\* the note test without its second half: a blank note is written as well
MdNoteUnstripped(rel_path_str) ==
    LET notes == {n \in file_notes : n[1] = rel_path_str}
    IN  IF notes # {}
        THEN <<<<>>, <<"**Note:**">>,
               <<">", " ">> \o Strip((CHOOSE n \in notes : TRUE)[2]), <<>>>>
        ELSE <<>>

\* the lines a note adds to a section
MdNote(rel_path_str) ==
    LET notes == {n \in file_notes : n[1] = rel_path_str}
    IN  IF notes # {} /\ Strip((CHOOSE n \in notes : TRUE)[2]) # <<>>
        THEN <<<<>>, <<"**Note:**">>,
               <<">", " ">> \o Strip((CHOOSE n \in notes : TRUE)[2]), <<>>>>
        ELSE <<>>

\* the document written to project_file_names_and_locations.md, by lines
MdDocument(proj, lines) ==
    <<<<"# Project File Locations">>, <<>>,
      <<"**Project:** ", proj.project_name>>, <<>>,
      <<"**Root:** ", BQ>> \o Join(proj.directory, <<"/">>) \o <<BQ>>, <<>>,
      <<"---">>, <<>>,
      <<"## Files">>, <<>>>> \o lines

Max(a, b) == IF a >= b THEN a ELSE b

(***************************************************************************)
(* The watcher (watchdog Observer with its ProjectChangeHandler).          *)
(***************************************************************************)
\* self.debounce_delay = 1.0, in ticks of the clock: a tick is half a second
debounce_delay == 2

\* Observer().schedule(ProjectChangeHandler(queue), watch_path, recursive=True).
\* events: what the observer has seen and not yet dispatched.  What the
\* handler did: last_sent, prev_sent, the times of the last two signals it
\* forwarded; last_handled, the time of the last event it was given; dropped,
\* whether it ever forwarded none for an event (0: no such time yet).
\* started: observer_thread has run Observer.start(), so that the observer
\* is_alive() and sees events; where the thread is taken to run at once
\* (hist.prompt) the observer is started from the beginning.
NewWatcher(path) ==
    [watch_path |-> path, alive |-> TRUE, started |-> hist.prompt, events |-> <<>>,
     last_event_time |-> 0,
     last_sent |-> 0, prev_sent |-> 0, last_handled |-> 0, dropped |-> FALSE]

RemoveAt(ws, i) == SubSeq(ws, 1, i - 1) \o SubSeq(ws, i + 1, Len(ws))

\* stop_observer: the observers afterwards (self.observer becomes None).
\* Observer.stop() ends the observer's thread; an event the thread is
\* dispatching at that moment may still reach the handler, later ones do not.
\* An observer that is not yet started is not is_alive(): it is not stopped,
\* only forgotten.
stop_observer(ws, o) ==
    IF o # 0 /\ ws[o].alive /\ ws[o].started
    THEN IF ws[o].events = <<>> THEN RemoveAt(ws, o)
         ELSE [ws EXCEPT ![o].alive = FALSE, ![o].events = <<Head(@)>>]
    ELSE ws

\* start_observer, called with file system f while the auto-refresh box
\* shows auto.  Where the watchdog library is not taken to work at once and
\* without fail (hist.prompt), scheduling the observer or starting its thread
\* may raise: no observer is kept and the box is cleared.
start_observer_when(f, auto) ==
    IF \/ ~selected_project.set
       \/ ~auto
       \/ (IF observer = 0 THEN FALSE ELSE ~watchers[observer].started)
    THEN /\ auto_refresh_var' = auto
         /\ UNCHANGED <<watchers, observer, callback_queue>>
    ELSE IF ~IsDir(f, ProjectDir)
    THEN /\ auto_refresh_var' = FALSE
         /\ UNCHANGED <<watchers, observer, callback_queue>>
    ELSE \E raises \in (IF hist.prompt THEN {FALSE} ELSE BOOLEAN) :
            IF raises
            THEN /\ callback_queue' = <<>>
                 /\ auto_refresh_var' = FALSE
                 /\ observer' = 0
                 /\ UNCHANGED watchers
            ELSE /\ callback_queue' = <<>>
                 /\ watchers' = Append(watchers, NewWatcher(ProjectDir))
                 /\ observer' = Len(watchers) + 1
                 /\ auto_refresh_var' = auto

start_observer(f) == start_observer_when(f, auto_refresh_var)

\* What the caller of refresh_files does once it returns, with file system f:
\* load_selected_project starts the observer, check_queue re-arms its timer.
Continue(caller, f) ==
    /\ IF caller = "load" /\ auto_refresh_var
       THEN start_observer(f)
       ELSE UNCHANGED <<watchers, observer, callback_queue, auto_refresh_var>>
    /\ poll_scheduled' = IF caller = "poll" THEN TRUE ELSE poll_scheduled

(***************************************************************************)
(* refresh_files, from its entry to the first directory listing.  `proj`   *)
(* is self.selected_project (not None) and f0 the file system at the call; *)
(* the option variables are read primed, as the calling handler leaves     *)
(* them.                                                                   *)
(***************************************************************************)
BeginRefreshFrom(caller, proj, f0, h) ==
    \E K \in ClearKeeps(f0, h.faults_left) :
        LET f1 == clear_temp_folder(f0, K)
            f2 == copy_context_file_to_output(f1, proj)
            ctx == temp_dir \o <<CONTEXT_FILE>>
            do_copy == copy_individual_files_var'
            base == [IdlePass EXCEPT
                        !.source_dir = proj.directory,
                        !.undeleted = K,
                        !.before = PassBefore(f0),
                        !.cleared = Staging(f0) \ K,
                        !.written = IF ContextCopied(f1, proj) THEN {ctx} ELSE {}]
        IN  /\ fs' = f2
            /\ hist' = [h EXCEPT
                          !.faults_left = @ - Cardinality(
                              {p \in K : Len(p) = Len(temp_dir) + 1}),
                          !.dirty = FALSE]
            /\ IF ~IsDir(f2, proj.directory)
               THEN /\ stack' = Append(stack, [caller |-> caller, pc |-> "dialog"])
                    /\ pass' = base
               ELSE /\ stack' = Append(stack, [caller |-> caller, pc |-> "walk"])
                    /\ pass' = [base EXCEPT
                                  !.walk = <<proj.directory>>,
                                  !.do_paths_md = create_paths_md_var',
                                  !.do_copy = do_copy,
                                  !.do_convert = convert_copied_files_var' /\ do_copy]
            /\ last' = NoLast

\* the user closes the "source directory not found" dialog: refresh_files returns
DismissDialog ==
    /\ Running /\ Top.pc = "dialog"
    /\ stack' = Front(stack)
    /\ last' = [status |-> "aborted", pass |-> pass]
    /\ pass' = IdlePass
    /\ Continue(Top.caller, fs)
    /\ UNCHANGED <<fs, projects, selected_project, gitignore_spec, include_patterns,
                   file_notes, create_paths_md_var, copy_individual_files_var,
                   convert_copied_files_var, clock, hist>>

\* the slip "dirs = filtered_dirs", which rebinds the name and prunes nothing
WalkedDirsUnpruned(dirs, filtered_dirs) == dirs

\* "dirs[:] = filtered_dirs": the sub-directories os.walk goes on to
WalkedDirs(dirs, filtered_dirs) == filtered_dirs

\* one iteration of "for root, dirs, files in os.walk(source_dir)": the next
\* directory is listed, its ignored sub-directories are pruned and counted,
\* and the others wait to be walked, before the directories listed earlier
WalkDir ==
    /\ Walking /\ pass.files = {} /\ pass.walk # <<>>
    /\ LET root_path == Head(pass.walk)
           dirs == {d \in Children(fs, root_path) : IsDir(fs, d)}
           files == {d \in Children(fs, root_path) : ~IsDir(fs, d)}
           filtered_dirs == {d \in dirs : ~should_ignore(d, TRUE)}
       IN  \E order \in Perms(WalkedDirs(dirs, filtered_dirs)) :
              pass' = [pass EXCEPT
                         !.walk = order \o Tail(@),
                         !.cur = root_path,
                         !.files = {Last(q) : q \in files},
                         !.ignored_git_count =
                             @ + Cardinality(dirs) - Cardinality(filtered_dirs),
                         !.visited = @ \cup {root_path},
                         !.pruned = @ \cup (dirs \ filtered_dirs)]
    /\ UNCHANGED <<fs, projects, selected_project, gitignore_spec, include_patterns,
                   file_notes, create_paths_md_var, copy_individual_files_var,
                   convert_copied_files_var, auto_refresh_var, watchers, observer,
                   callback_queue, clock, stack, poll_scheduled, last, hist>>

\* "Action: Individual File Copy/Convert" for one accepted file, p being the
\* locals so far.  copy_fault / rename_fault: the operating system fails
\* shutil.copy2 / Path.rename although the file system would allow them.
\* The result: the file system, the locals, and the faults that came to pass.
CopyStep(p, file_path, relative_path, filename, copy_fault, rename_fault) ==
    LET path_prefix == Join(Front(relative_path), <<"-">>)
        unique_flat_filename ==
            IF path_prefix # <<>> THEN path_prefix \o <<"-">> \o filename
            ELSE filename
        target_flat_filename ==
            IF p.do_convert THEN unique_flat_filename \o DOT_TXT
            ELSE unique_flat_filename
        source_copy_path == temp_dir \o <<unique_flat_filename>>
        target_dest_path == temp_dir \o <<target_flat_filename>>
        cp == IF copy_fault THEN [ok |-> FALSE, fs |-> fs]
              ELSE Copy2(fs, file_path, source_copy_path)
        rn == IF rename_fault THEN [ok |-> FALSE, fs |-> cp.fs]
              ELSE Rename(cp.fs, source_copy_path, target_dest_path)
    IN  IF target_flat_filename \in p.files_in_temp
        THEN [fs |-> fs,
              pass |-> [p EXCEPT !.collision_skips = @ + 1],
              faults |-> 0]
        ELSE IF ~cp.ok
        THEN [fs |-> IF Exists(cp.fs, source_copy_path)
                     THEN Unlink(cp.fs, source_copy_path) ELSE cp.fs,
              pass |-> [p EXCEPT !.read_error_count = @ + 1,
                                 !.copied_count = Max(0, @ - 1),
                                 !.failed = @ \cup {file_path}],
              faults |-> IF copy_fault THEN 1 ELSE 0]
        ELSE IF ~p.do_convert
        THEN [fs |-> cp.fs,
              pass |-> [p EXCEPT
                          !.copied_count = @ + 1,
                          !.files_in_temp = @ \cup {unique_flat_filename},
                          !.copies = @ \cup {[name |-> unique_flat_filename,
                                              src |-> file_path]},
                          !.written = @ \cup {source_copy_path}],
              faults |-> 0]
        ELSE IF rn.ok
        THEN [fs |-> rn.fs,
              pass |-> [p EXCEPT
                          !.copied_count = @ + 1,
                          !.converted_count = @ + 1,
                          !.files_in_temp = @ \cup {target_flat_filename},
                          !.copies = @ \cup {[name |-> target_flat_filename,
                                              src |-> file_path]},
                          !.written = @ \cup {source_copy_path, target_dest_path}],
              faults |-> 0]
        ELSE [fs |-> IF Exists(cp.fs, source_copy_path)
                     THEN Unlink(cp.fs, source_copy_path) ELSE cp.fs,
              pass |-> [p EXCEPT
                          !.copied_count =
                              IF Exists(cp.fs, source_copy_path) THEN @ ELSE @ + 1,
                          !.written = @ \cup {source_copy_path},
                          !.failed = @ \cup {file_path}],
              faults |-> IF rename_fault THEN 1 ELSE 0]

\* the body of "for filename in files" for one file of the current directory
FileStep(filename, copy_fault, rename_fault) ==
    LET file_path == pass.cur \o <<filename>>
        p0 == [pass EXCEPT !.files = @ \ {filename},
                           !.examined = @ \cup {file_path}]
        relative_path == SubSeq(file_path, Len(pass.source_dir) + 1, Len(file_path))
        rel_path_str == Join(relative_path, <<"/">>)
        p1 == [p0 EXCEPT !.accepted = Append(@, relative_path)]
        p2 == IF pass.do_paths_md
              THEN [p1 EXCEPT
                      !.paths_md_lines =
                          @ \o <<MdHeading(rel_path_str)>> \o MdNote(rel_path_str)
                            \o <<<<>>>>,
                      !.md_entries = @ + 1]
              ELSE p1
    IN  IF should_ignore(file_path, FALSE)
        THEN [fs |-> fs,
              pass |-> [p0 EXCEPT !.ignored_git_count = @ + 1,
                                  !.ignored_files = @ \cup {file_path}],
              faults |-> 0]
        ELSE IF include_patterns # <<>> /\ ~should_include(file_path)
        THEN [fs |-> fs,
              pass |-> [p0 EXCEPT !.ignored_incl_count = @ + 1],
              faults |-> 0]
        ELSE IF ~pass.do_copy
        THEN [fs |-> fs, pass |-> p2, faults |-> 0]
        ELSE CopyStep(p2, file_path, relative_path, filename, copy_fault, rename_fault)

\* the loop body raises for this file of the current directory: the file is
\* accepted, a section is written for it, and its note is no string
Raises(filename) ==
    LET file_path == pass.cur \o <<filename>>
        relative_path == SubSeq(file_path, Len(pass.source_dir) + 1, Len(file_path))
    IN  /\ ~should_ignore(file_path, FALSE)
        /\ include_patterns = <<>> \/ should_include(file_path)
        /\ pass.do_paths_md
        /\ NoteRaises(Join(relative_path, <<"/">>))

\* os.walk yields the files of a directory in the order the operating system
\* lists them: any order
ProcessFile ==
    /\ Walking /\ pass.files # {}
    /\ \E filename \in pass.files, copy_fault \in BOOLEAN, rename_fault \in BOOLEAN :
          LET r == FileStep(filename, copy_fault, rename_fault)
          IN  /\ ~Raises(filename)
              /\ r.faults = (IF copy_fault THEN 1 ELSE 0) + (IF rename_fault THEN 1 ELSE 0)
              /\ r.faults <= hist.faults_left
              /\ fs' = r.fs
              /\ pass' = r.pass
              /\ hist' = [hist EXCEPT !.faults_left = @ - r.faults]
    /\ UNCHANGED <<projects, selected_project, gitignore_spec, include_patterns,
                   file_notes, create_paths_md_var, copy_individual_files_var,
                   convert_copied_files_var, auto_refresh_var, watchers, observer,
                   callback_queue, clock, stack, poll_scheduled, last>>

\* what the caller of refresh_files does after an exception of the walk, were
\* the exception to leave refresh_files: Tk reports it and nothing more of
\* the calling handler runs, but for the "finally" of check_queue
ExceptionLeavesRefresh(caller, f) ==
    /\ UNCHANGED <<watchers, observer, callback_queue, auto_refresh_var>>
    /\ poll_scheduled' = IF caller = "poll" THEN TRUE ELSE poll_scheduled

\* "except Exception as e" around the walk: the exception is logged,
\* refresh_files returns, and its caller goes on as after any pass
AfterException(caller, f) == Continue(caller, f)

\* The loop body raises for a file (AttributeError at the note test, after
\* the heading of the section was appended): the walk and the post-processing
\* are left for the handler at the end of refresh_files.
RaiseInWalk ==
    /\ Walking /\ pass.files # {}
    /\ \E filename \in pass.files :
          LET file_path == pass.cur \o <<filename>>
              relative_path ==
                  SubSeq(file_path, Len(pass.source_dir) + 1, Len(file_path))
          IN  /\ Raises(filename)
              /\ last' = [status |-> "failed",
                          pass |-> [pass EXCEPT
                                      !.files = @ \ {filename},
                                      !.examined = @ \cup {file_path},
                                      !.accepted = Append(@, relative_path),
                                      !.paths_md_lines = Append(@,
                                          MdHeading(Join(relative_path, <<"/">>)))]]
    /\ pass' = IdlePass
    /\ stack' = Front(stack)
    /\ AfterException(Top.caller, fs)
    /\ UNCHANGED <<fs, projects, selected_project, gitignore_spec, include_patterns,
                   file_notes, create_paths_md_var, copy_individual_files_var,
                   convert_copied_files_var, clock, hist>>

\* "Post-Processing: Write Output Files", the summary, and the return
RefreshEnd ==
    /\ Walking /\ pass.files = {} /\ pass.walk = <<>>
    /\ LET md_output_path == temp_dir \o <<PATHS_MD_FILE>>
           write == /\ pass.do_paths_md
                    /\ pass.paths_md_lines # <<>>
                    /\ ~IsDir(fs, md_output_path)
           f1 == IF write
                 THEN WriteFile(fs, md_output_path, MdDocument(selected_project, pass.paths_md_lines))
                 ELSE fs
       IN  /\ fs' = f1
           /\ last' = [status |-> "finished",
                       pass |-> [pass EXCEPT
                                   !.written = IF write THEN @ \cup {md_output_path}
                                               ELSE @]]
           /\ pass' = IdlePass
           /\ stack' = Front(stack)
           /\ Continue(Top.caller, f1)
    /\ UNCHANGED <<projects, selected_project, gitignore_spec, include_patterns,
                   file_notes, create_paths_md_var, copy_individual_files_var,
                   convert_copied_files_var, clock, hist>>

(***************************************************************************)
(* The foreground handlers that start a pass.  Buttons and checkboxes are  *)
(* served by the main loop only (an open dialog holds the grab).           *)
(***************************************************************************)
\* load_file_notes: the members of .progomatter_notes.json; a file that does
\* not parse as JSON (a member here that is no <<key, value, kind>>) or cannot
\* be read leaves the store empty
load_file_notes(f, proj) ==
    LET notes_file == proj.directory \o <<NOTES_FILE>>
    IN  IF ~IsFile(f, notes_file) THEN {}
        ELSE IF \E i \in 1..Len(f[notes_file].data) : Len(f[notes_file].data[i]) # 3
        THEN {}
        ELSE Range(f[notes_file].data)

\* "Refresh Output" with a project selected
BeginRefresh(caller, proj, f0) == BeginRefreshFrom(caller, proj, f0, hist)

ManualRefresh ==
    /\ stack = <<>>
    /\ selected_project.set
    /\ UNCHANGED <<create_paths_md_var, copy_individual_files_var,
                   convert_copied_files_var>>
    /\ BeginRefresh("ui", selected_project, fs)
    /\ UNCHANGED <<projects, selected_project, gitignore_spec, include_patterns,
                   file_notes, auto_refresh_var, watchers, observer, callback_queue,
                   clock, poll_scheduled>>

\* on_option_change calling refresh_files whether a project is selected or not,
\* and refresh_files going on without one
on_option_change_unguarded ==
    /\ BeginRefresh("ui", selected_project, fs)
    /\ UNCHANGED <<projects, selected_project, gitignore_spec, include_patterns,
                   file_notes, auto_refresh_var, watchers, observer, callback_queue,
                   clock, poll_scheduled>>

\* on_option_change, after the toggled checkbox has changed its variable
on_option_change ==
    /\ IF selected_project.set
       THEN BeginRefresh("ui", selected_project, fs)
       ELSE UNCHANGED <<fs, stack, pass, last, hist>>
    /\ UNCHANGED <<projects, selected_project, gitignore_spec, include_patterns,
                   file_notes, auto_refresh_var, watchers, observer, callback_queue,
                   clock, poll_scheduled>>

\* the "Create paths MD" checkbox
on_paths_md_change ==
    /\ stack = <<>>
    /\ create_paths_md_var' = ~create_paths_md_var
    /\ UNCHANGED <<copy_individual_files_var, convert_copied_files_var>>
    /\ on_option_change

\* the "Copy individual files" checkbox
on_copy_individual_change ==
    /\ stack = <<>>
    /\ copy_individual_files_var' = ~copy_individual_files_var
    /\ UNCHANGED <<create_paths_md_var, convert_copied_files_var>>
    /\ on_option_change

\* the "Convert copied files to .txt" checkbox, enabled while copying is on
\* (update_dependent_checkbox_states)
on_convert_change ==
    /\ stack = <<>>
    /\ copy_individual_files_var
    /\ convert_copied_files_var' = ~convert_copied_files_var
    /\ UNCHANGED <<create_paths_md_var, copy_individual_files_var>>
    /\ on_option_change

\* load_selected_project, up to the first directory listing of its refresh
load_selected_project ==
    /\ stack = <<>>
    /\ \E p \in projects :
          LET proj == [set |-> TRUE, project_name |-> p.project_name,
                       directory |-> p.directory]
          IN  /\ watchers' = stop_observer(watchers, observer)
              /\ observer' = 0
              /\ selected_project' = proj
              /\ gitignore_spec' = load_gitignore(fs, proj)
              /\ include_patterns' = load_include_patterns(fs, proj)
              /\ file_notes' = load_file_notes(fs, proj)
              /\ UNCHANGED <<create_paths_md_var, copy_individual_files_var,
                             convert_copied_files_var>>
              /\ BeginRefresh("load", proj, copy_context_file_to_output(fs, proj))
    /\ UNCHANGED <<projects, auto_refresh_var, callback_queue, clock, poll_scheduled>>

(***************************************************************************)
(* The watcher thread, the queue poll, the clock and the edits made to the *)
(* source tree by other programs.                                          *)
(***************************************************************************)
\* what schedule_refresh does at current_time, for handler w: whether it puts
\* "refresh" on the queue, and the handler afterwards
\* schedule_refresh forwarding every event
schedule_refresh_every_event(w, current_time) ==
    [put |-> TRUE,
     w |-> [w EXCEPT !.last_event_time = current_time,
                     !.prev_sent = w.last_sent,
                     !.last_sent = current_time,
                     !.last_handled = current_time]]

schedule_refresh(w, current_time) ==
    IF \/ current_time - w.last_event_time >= debounce_delay
       \/ w.last_event_time = 0
    THEN [put |-> TRUE,
          w |-> [w EXCEPT !.last_event_time = current_time,
                          !.prev_sent = w.last_sent,
                          !.last_sent = current_time,
                          !.last_handled = current_time]]
    ELSE [put |-> FALSE,
          w |-> [w EXCEPT !.last_handled = current_time, !.dropped = TRUE]]

\* the test of on_any_event: event.src_path as a string
Forwardable(event) ==
    LET path_str == <<"/">> \o Join(event.src_path, <<"/">>)
    IN  /\ ~event.is_directory
        /\ ~Contains(path_str, GIT)
        /\ ~Contains(path_str, TEMP_DIR_NAME)

\* on_any_event doing the reset of the staging directory itself, on the
\* observer's thread, whenever it forwards a signal
on_any_event_resetting ==
    \E i \in 1..Len(watchers) :
        /\ watchers[i].events # <<>>
        /\ LET event == Head(watchers[i].events)
               w0 == [watchers[i] EXCEPT !.events = Tail(@)]
               r == IF Forwardable(event) THEN schedule_refresh(w0, clock)
                    ELSE [put |-> FALSE, w |-> w0]
           IN  /\ callback_queue' = IF r.put THEN Append(callback_queue, "refresh")
                                    ELSE callback_queue
               /\ fs' = IF r.put THEN clear_temp_folder(fs, {}) ELSE fs
               /\ IF r.w.alive
                  THEN watchers' = [watchers EXCEPT ![i] = r.w] /\ UNCHANGED observer
                  ELSE /\ watchers' = RemoveAt(watchers, i)
                       /\ observer' = IF observer > i THEN observer - 1 ELSE observer
        /\ UNCHANGED <<projects, selected_project, gitignore_spec, include_patterns,
                       file_notes, create_paths_md_var, copy_individual_files_var,
                       convert_copied_files_var, auto_refresh_var, clock, stack,
                       poll_scheduled, pass, last, hist>>

\* on_any_event on the observer's thread, for the oldest event of watcher i.
\* A stopped observer ends once the event it was dispatching is done.
on_any_event ==
    \E i \in 1..Len(watchers) :
        /\ watchers[i].events # <<>>
        /\ LET event == Head(watchers[i].events)
               w0 == [watchers[i] EXCEPT !.events = Tail(@)]
               r == IF Forwardable(event) THEN schedule_refresh(w0, clock)
                    ELSE [put |-> FALSE, w |-> w0]
           IN  /\ callback_queue' = IF r.put THEN Append(callback_queue, "refresh")
                                    ELSE callback_queue
               /\ IF r.w.alive
                  THEN watchers' = [watchers EXCEPT ![i] = r.w] /\ UNCHANGED observer
                  ELSE /\ watchers' = RemoveAt(watchers, i)
                       /\ observer' = IF observer > i THEN observer - 1 ELSE observer
    /\ UNCHANGED <<fs, projects, selected_project, gitignore_spec, include_patterns,
                   file_notes, create_paths_md_var, copy_individual_files_var,
                   convert_copied_files_var, auto_refresh_var, clock, stack,
                   poll_scheduled, pass, last, hist>>

\* check_queue starting a pass for a signal whether auto-refresh is on or not
check_queue_any_signal ==
    /\ poll_scheduled
    /\ EventLoopRuns
    /\ IF callback_queue = <<>>
       THEN /\ hist' = [hist EXCEPT !.polled = TRUE]
            /\ UNCHANGED <<fs, stack, pass, last, callback_queue, poll_scheduled>>
       ELSE /\ callback_queue' = Tail(callback_queue)
            /\ IF /\ Head(callback_queue) = "refresh"
                  /\ selected_project.set
               THEN /\ poll_scheduled' = FALSE
                    /\ UNCHANGED <<create_paths_md_var, copy_individual_files_var,
                                   convert_copied_files_var>>
                    /\ BeginRefresh("poll", selected_project, fs)
               ELSE /\ hist' = [hist EXCEPT !.polled = TRUE]
                    /\ UNCHANGED <<fs, stack, pass, last, poll_scheduled>>
    /\ UNCHANGED <<projects, selected_project, gitignore_spec, include_patterns,
                   file_notes, create_paths_md_var, copy_individual_files_var,
                   convert_copied_files_var, auto_refresh_var, watchers, observer,
                   clock>>

\* check_queue, run by the event loop when its timer is due: by the main loop,
\* or by the loop messagebox.showerror runs while the dialog is open
check_queue ==
    /\ poll_scheduled
    /\ EventLoopRuns
    /\ IF callback_queue = <<>>
       THEN /\ hist' = [hist EXCEPT !.polled = TRUE]
            /\ UNCHANGED <<fs, stack, pass, last, callback_queue, poll_scheduled>>
       ELSE /\ callback_queue' = Tail(callback_queue)
            /\ IF /\ Head(callback_queue) = "refresh"
                  /\ selected_project.set
                  /\ auto_refresh_var
               THEN /\ poll_scheduled' = FALSE
                    /\ UNCHANGED <<create_paths_md_var, copy_individual_files_var,
                                   convert_copied_files_var>>
                    /\ BeginRefresh("poll", selected_project, fs)
               ELSE /\ hist' = [hist EXCEPT !.polled = TRUE]
                    /\ UNCHANGED <<fs, stack, pass, last, poll_scheduled>>
    /\ UNCHANGED <<projects, selected_project, gitignore_spec, include_patterns,
                   file_notes, create_paths_md_var, copy_individual_files_var,
                   convert_copied_files_var, auto_refresh_var, watchers, observer,
                   clock>>

\* A tick of the clock.  A tick is longer than the 250 ms of the poll timer:
\* while the event loop runs and the timer is pending, check_queue runs at
\* least once in every tick.
Tick ==
    /\ clock < MaxTime
    /\ (poll_scheduled /\ EventLoopRuns) => hist.polled
    /\ clock' = clock + 1
    /\ hist' = [hist EXCEPT !.polled = FALSE]
    /\ UNCHANGED <<fs, projects, selected_project, gitignore_spec, include_patterns,
                   file_notes, create_paths_md_var, copy_individual_files_var,
                   convert_copied_files_var, auto_refresh_var, watchers, observer,
                   callback_queue, stack, poll_scheduled, pass, last>>

\* the observers after the events evs happened: every running observer whose
\* watch_path an event lies under sees it
Emit(ws, evs) ==
    [i \in 1..Len(ws) |->
        IF ws[i].alive /\ ws[i].started
        THEN [ws[i] EXCEPT !.events =
                 @ \o SelectSeq(evs, LAMBDA e : IsPrefix(ws[i].watch_path, e.src_path))]
        ELSE ws[i]]

\* observer_thread runs its target, Observer.start(), for an observer that
\* start_observer created: from now on the observer sees the events of its
\* tree, whether the application still refers to it or not
observer_start ==
    /\ \E i \in 1..Len(watchers) :
          /\ ~watchers[i].started
          /\ watchers' = [watchers EXCEPT ![i].started = TRUE]
    /\ UNCHANGED <<fs, projects, selected_project, gitignore_spec, include_patterns,
                   file_notes, create_paths_md_var, copy_individual_files_var,
                   convert_copied_files_var, auto_refresh_var, observer,
                   callback_queue, clock, stack, poll_scheduled, pass, last, hist>>

\* the observer of the selected project runs and auto-refresh is on
Watching ==
    /\ selected_project.set
    /\ auto_refresh_var
    /\ IF observer = 0 THEN FALSE
       ELSE watchers[observer].alive /\ watchers[observer].watch_path = ProjectDir

\* a pass on the selected project would accept the file at path
Acceptable(path) ==
    /\ selected_project.set
    /\ IsStrictPrefix(ProjectDir, path)
    /\ \A i \in (Len(ProjectDir) + 1)..Len(path) :
          ~should_ignore(SubSeq(path, 1, i), i < Len(path))
    /\ should_include(path)

\* Another program saves a file of a project tree; the operating system
\* reports the save in one event or in several.  dirty: the selected
\* project's tree changed under a running observer and no pass began since.
ModifyFile ==
    /\ hist.edits < MaxEdits
    /\ \E proj \in projects :
         \E path \in Beneath(fs, proj.directory), n \in 1..MaxBurst :
            /\ IsFile(fs, path)
            /\ fs' = WriteFile(fs, path, Append(fs[path].data, <<"e">>))
            /\ watchers' = Emit(watchers,
                    [i \in 1..n |-> [src_path |-> path, is_directory |-> FALSE]])
            /\ hist' = [hist EXCEPT
                          !.edits = @ + 1,
                          !.dirty = @ \/ (Watching /\ Acceptable(path))]
    /\ UNCHANGED <<projects, selected_project, gitignore_spec, include_patterns,
                   file_notes, create_paths_md_var, copy_individual_files_var,
                   convert_copied_files_var, auto_refresh_var, observer,
                   callback_queue, clock, stack, poll_scheduled, pass, last>>

\* another program deletes a project directory with all it holds
RemoveProjectDir ==
    /\ hist.edits < MaxEdits
    /\ \E proj \in projects :
          /\ IsDir(fs, proj.directory)
          /\ LET gone == {proj.directory} \cup Beneath(fs, proj.directory)
             IN  /\ fs' = RemoveAll(fs, gone)
                 /\ \E order \in Perms({q \in gone : IsFile(fs, q)}) :
                       watchers' = Emit(watchers,
                           [i \in 1..Len(order) |->
                               [src_path |-> order[i], is_directory |-> FALSE]]
                           \o <<[src_path |-> proj.directory, is_directory |-> TRUE]>>)
    /\ hist' = [hist EXCEPT !.edits = @ + 1]
    /\ UNCHANGED <<projects, selected_project, gitignore_spec, include_patterns,
                   file_notes, create_paths_md_var, copy_individual_files_var,
                   convert_copied_files_var, auto_refresh_var, observer,
                   callback_queue, clock, stack, poll_scheduled, pass, last>>

\* what the user may leave in the .include editor, by lines
IncludeEdits == {<<>>, <<<<"*">> \o DOT_MD>>}

\* edit_include_file with its save_changes: the user opens the editor on the
\* project's .include, leaves `content` in it and presses "Save & Close".  The
\* file is written (the observer sees the write like any other), the
\* patterns are loaded from it and a pass begins.  The save counts among
\* the edits of the tree.
save_changes ==
    /\ hist.edits < MaxEdits
    /\ stack = <<>>
    /\ selected_project.set
    /\ IsDir(fs, ProjectDir)
    /\ \E content \in IncludeEdits :
          LET include_path == ProjectDir \o <<INCLUDE_FILE>>
              f1 == WriteFile(fs, include_path, content)
          IN  /\ ~IsDir(fs, include_path)
              /\ include_patterns' = load_include_patterns(f1, selected_project)
              /\ watchers' = Emit(watchers,
                      <<[src_path |-> include_path, is_directory |-> FALSE]>>)
              /\ UNCHANGED <<create_paths_md_var, copy_individual_files_var,
                             convert_copied_files_var>>
              /\ BeginRefreshFrom("ui", selected_project, f1,
                                   [hist EXCEPT !.edits = @ + 1])
    /\ UNCHANGED <<projects, selected_project, gitignore_spec, file_notes,
                   auto_refresh_var, observer, callback_queue, clock, poll_scheduled>>

\* The "Auto-Refresh on change" box is clicked: Tk flips the variable, then
\* toggle_observer starts or stops the observer.  The clicks on the box are
\* counted with the edits of the trees.
toggle_observer ==
    /\ stack = <<>>
    /\ Len(watchers) < MaxObservers
    /\ hist.edits < MaxEdits
    /\ hist' = [hist EXCEPT !.edits = @ + 1]
    /\ IF ~auto_refresh_var
       THEN IF selected_project.set
            THEN start_observer_when(fs, TRUE)
            ELSE /\ auto_refresh_var' = TRUE
                 /\ UNCHANGED <<watchers, observer, callback_queue>>
       ELSE /\ auto_refresh_var' = FALSE
            /\ watchers' = stop_observer(watchers, observer)
            /\ observer' = 0
            /\ UNCHANGED callback_queue
    /\ UNCHANGED <<fs, projects, selected_project, gitignore_spec, include_patterns,
                   file_notes, create_paths_md_var, copy_individual_files_var,
                   convert_copied_files_var, clock, stack, poll_scheduled, pass,
                   last>>

\* "Delete" with a project selected, the question answered with yes
delete_project ==
    /\ stack = <<>>
    /\ selected_project.set
    /\ watchers' = stop_observer(watchers, observer)
    /\ observer' = 0
    /\ projects' = {p \in projects : p.project_name # selected_project.project_name}
    /\ selected_project' = NoProject
    /\ include_patterns' = <<>>
    /\ gitignore_spec' = <<>>
    /\ file_notes' = {}
    /\ \E K \in ClearKeeps(fs, hist.faults_left) :
          /\ fs' = clear_temp_folder(fs, K)
          /\ hist' = [hist EXCEPT
                        !.faults_left = @ - Cardinality(
                            {p \in K : Len(p) = Len(temp_dir) + 1})]
    /\ UNCHANGED <<create_paths_md_var, copy_individual_files_var,
                   convert_copied_files_var, auto_refresh_var, callback_queue, clock,
                   stack, poll_scheduled, pass, last>>

\* "Refresh Output" with no project selected: refresh_files logs that the
\* refresh is skipped and returns
RefreshSkipped ==
    /\ stack = <<>>
    /\ ~selected_project.set
    /\ UNCHANGED vars

\* a project is chosen in the drop-down list, while the observers created so
\* far are fewer than the bound
SelectProject ==
    /\ Len(watchers) < MaxObservers
    /\ load_selected_project

(***************************************************************************)
(* Initial states: the application just constructed, one project in        *)
(* projects.json, and a project tree drawn from FileUniverse.              *)
(***************************************************************************)
X_PY == <<"x", ".", "p", "y">>
X_PY_TXT == X_PY \o DOT_TXT
B_MD == <<"b", ".", "m", "d">>
A_D_Y == <<"a", "-", "d", "-", "y">>

\* a source file whose content is its own relative path
Plain(rel) == [rel |-> rel, data |-> rel]

\* the files a project tree is drawn from; .include, .gitignore and the
\* context file are files of the tree like the others
FileUniverse ==
    {Plain(<<X_PY>>), Plain(<<X_PY_TXT>>), Plain(<<B_MD>>), Plain(<<A_D_Y>>),
     Plain(<<<<"a">>, <<"d">>, <<"y">>>>), Plain(<<GIT, <<"c">>>>),
     [rel |-> <<INCLUDE_FILE>>,
      data |-> <<<<"#", " ", "c">>, <<"*", ".", "p", "y", " ">>, <<>>>>],
     [rel |-> <<GITIGNORE_FILE>>,
      data |-> <<<<"a", "/">>, <<"!", ".", "g", "i", "t">>>>],
     [rel |-> <<CONTEXT_FILE>>, data |-> <<<<"c", "t", "x">>>>]}

\* the files of the trees that are placed over the staging directory
SmallUniverse ==
    {Plain(<<X_PY>>), Plain(<<X_PY_TXT>>), Plain(<<<<"a">>, <<"d">>, <<"y">>>>)}

\* no path of a tree is both a file and a directory
Consistent(tree) ==
    \A u, v \in tree : ~IsStrictPrefix(u.rel, v.rel)

TreesOf(universe) ==
    {t \in SUBSET universe : Cardinality(t) <= MaxFiles /\ Consistent(t)}

\* where the project root lies: apart from the staging directory, above it,
\* the staging directory itself, inside it
HomeDir == <<<<"h">>>>
ProjectDirs == {HomeDir, TempRoot, temp_dir, temp_dir \o <<<<"p">>>>}

\* the file system without the project directory (deleted since the project
\* was created)
BareFs == [q \in {temp_dir} \cup Ancestors(temp_dir) |-> DirNode]

\* the file system holding `tree` under `dir`, and the staging directory
TreeFs(dir, tree) ==
    LET files == {dir \o u.rel : u \in tree}
        dirs == {dir, temp_dir} \cup Ancestors(dir) \cup Ancestors(temp_dir)
                \cup UNION {Ancestors(q) : q \in files}
    IN  [q \in files \cup dirs |->
            IF q \in files
            THEN FileNode((CHOOSE u \in tree : dir \o u.rel = q).data)
            ELSE DirNode]

InitApp ==
    /\ selected_project = NoProject
    /\ gitignore_spec = <<>>
    /\ include_patterns = <<>>
    /\ file_notes = {}
    /\ create_paths_md_var = TRUE
    /\ copy_individual_files_var = FALSE
    /\ convert_copied_files_var = FALSE
    /\ auto_refresh_var = TRUE
    /\ watchers = <<>>
    /\ observer = 0
    /\ callback_queue = <<>>
    /\ clock = 1
    /\ stack = <<>>
    /\ poll_scheduled = TRUE
    /\ pass = IdlePass
    /\ last = NoLast

\* Either a project root apart from the staging directory, on an operating
\* system whose I/O does not fail; or a small tree placed anywhere, I/O
\* operations failing.
Init ==
    /\ \/ /\ fs \in {TreeFs(HomeDir, tree) : tree \in TreesOf(FileUniverse)}
                   \cup {BareFs}
          /\ projects = {[project_name |-> "P", directory |-> HomeDir]}
          /\ hist = [faults_left |-> 0, edits |-> 0, polled |-> FALSE, dirty |-> FALSE,
               compare |-> FALSE, prompt |-> TRUE]
       \/ \E dir \in ProjectDirs :
             /\ fs \in {TreeFs(dir, tree) : tree \in TreesOf(SmallUniverse)}
             /\ projects = {[project_name |-> "P", directory |-> dir]}
             /\ hist = [faults_left |-> MaxFaults, edits |-> 0, polled |-> FALSE,
                     dirty |-> FALSE, compare |-> FALSE, prompt |-> TRUE]
    /\ InitApp

Next ==
    \/ load_selected_project
    \/ ManualRefresh
    \/ on_paths_md_change
    \/ on_copy_individual_change
    \/ on_convert_change
    \/ WalkDir
    \/ ProcessFile
    \/ RefreshEnd
    \/ DismissDialog

Spec == Init /\ [][Next]_vars

\* the files of the trees whose flat names are compared
X_TXT == <<"x">> \o DOT_TXT
A_D_Y_TXT == A_D_Y \o DOT_TXT
SRC == <<"s", "r", "c">>
MAIN_PY == <<"m", "a", "i", "n", ".", "p", "y">>
UTIL_PY == <<"u", "t", "i", "l", ".", "p", "y">>

FlatUniverse ==
    {Plain(<<<<"a">>, X_TXT>>), Plain(<<<<"b">>, X_TXT>>),
     Plain(<<A_D_Y>>), Plain(<<<<"a">>, <<"d">>, <<"y">>>>), Plain(<<A_D_Y_TXT>>),
     Plain(<<SRC, MAIN_PY>>), Plain(<<SRC, UTIL_PY>>),
     [rel |-> <<INCLUDE_FILE>>, data |-> <<<<"*">> \o DOT_TXT>>]}

\* a project root apart from the staging directory, I/O not failing
InitFlat ==
    /\ fs \in {TreeFs(HomeDir, tree) : tree \in TreesOf(FlatUniverse)} \cup {BareFs}
    /\ projects = {[project_name |-> "P", directory |-> HomeDir]}
    /\ hist = [faults_left |-> 0, edits |-> 0, polled |-> FALSE, dirty |-> FALSE,
               compare |-> FALSE, prompt |-> TRUE]
    /\ InitApp

SpecFlat == InitFlat /\ [][Next]_vars

\* the files of the trees on which one pass is compared with the next
TwiceUniverse == {Plain(<<X_PY>>), Plain(<<B_MD>>)}

\* a project root apart from the staging directory, I/O operations failing,
\* each pass remembering the one before it
InitTwice ==
    /\ fs \in {TreeFs(HomeDir, tree) : tree \in TreesOf(TwiceUniverse)}
    /\ projects = {[project_name |-> "P", directory |-> HomeDir]}
    /\ hist = [faults_left |-> MaxFaults, edits |-> 0, polled |-> FALSE,
               dirty |-> FALSE, compare |-> TRUE, prompt |-> TRUE]
    /\ InitApp

NextTwice ==
    \/ load_selected_project
    \/ ManualRefresh
    \/ on_paths_md_change
    \/ on_copy_individual_change
    \/ on_convert_change
    \/ WalkDir
    \/ ProcessFile
    \/ RefreshEnd
    \/ DismissDialog
    \/ RemoveProjectDir

SpecTwice == InitTwice /\ [][NextTwice]_vars

\* the files of the trees whose manifest carries notes: .progomatter_notes.json
\* holds a note for a/d/y, a blank one for a-d-y and one under the key y
NotedUniverse ==
    {Plain(<<X_PY>>), Plain(<<A_D_Y>>), Plain(<<<<"a">>, <<"d">>, <<"y">>>>),
     [rel |-> <<NOTES_FILE>>,
      data |-> <<<<<<"a", "/", "d", "/", "y">>, <<" ", "n", " ">>, "str">>,
                 <<A_D_Y, <<" ", " ">>, "str">>,
                 <<<<"y">>, <<"m">>, "str">>>>]}

\* a project root apart from the staging directory, I/O operations failing
InitNoted ==
    /\ fs \in {TreeFs(HomeDir, tree) : tree \in TreesOf(NotedUniverse)} \cup {BareFs}
    /\ projects = {[project_name |-> "P", directory |-> HomeDir]}
    /\ hist = [faults_left |-> MaxFaults, edits |-> 0, polled |-> FALSE,
               dirty |-> FALSE, compare |-> FALSE, prompt |-> TRUE]
    /\ InitApp

SpecNoted == InitNoted /\ [][Next]_vars

\* the files of the trees that are watched while they change
SchedUniverse == {Plain(<<X_PY>>)}

\* a small project tree apart from the staging directory, I/O not failing
InitSched ==
    /\ fs \in {TreeFs(HomeDir, tree) : tree \in TreesOf(SchedUniverse)}
    /\ projects = {[project_name |-> "P", directory |-> HomeDir]}
    /\ hist = [faults_left |-> 0, edits |-> 0, polled |-> FALSE, dirty |-> FALSE,
               compare |-> FALSE, prompt |-> TRUE]
    /\ InitApp

NextSched ==
    \/ load_selected_project
    \/ ManualRefresh
    \/ WalkDir
    \/ ProcessFile
    \/ RefreshEnd
    \/ DismissDialog
    \/ check_queue
    \/ on_any_event
    \/ Tick
    \/ ModifyFile
    \/ RemoveProjectDir

SpecSched == InitSched /\ [][NextSched]_vars

\* the files that the edited trees hold beside x.py:
\* .progomatter_notes.json binds x.py to a number
EditUniverse ==
    {[rel |-> <<INCLUDE_FILE>>, data |-> <<<<"*", ".", "p", "y">>>>],
     [rel |-> <<NOTES_FILE>>, data |-> <<<<X_PY, <<>>, "num">>>>]}

\* a project tree apart from the staging directory, I/O not failing
InitEdit ==
    /\ fs \in {TreeFs(HomeDir, {Plain(<<X_PY>>)} \cup tree) :
                  tree \in TreesOf(EditUniverse)}
    /\ projects = {[project_name |-> "P", directory |-> HomeDir]}
    /\ hist = [faults_left |-> 0, edits |-> 0, polled |-> FALSE, dirty |-> FALSE,
               compare |-> FALSE, prompt |-> TRUE]
    /\ InitApp

NextEdit ==
    \/ load_selected_project
    \/ ManualRefresh
    \/ on_copy_individual_change
    \/ save_changes
    \/ WalkDir
    \/ ProcessFile
    \/ RaiseInWalk
    \/ RefreshEnd
    \/ check_queue
    \/ on_any_event
    \/ ModifyFile

SpecEdit == InitEdit /\ [][NextEdit]_vars

\* the files of the trees that hold files named like the documents a pass
\* writes into the staging directory
DocsUniverse ==
    {Plain(<<X_PY>>), Plain(<<PATHS_MD_FILE>>),
     [rel |-> <<CONTEXT_FILE>>, data |-> <<<<"c", "t", "x">>>>]}

\* a project tree apart from the staging directory, I/O not failing
InitDocs ==
    /\ fs \in {TreeFs(HomeDir, tree) : tree \in TreesOf(DocsUniverse)} \cup {BareFs}
    /\ projects = {[project_name |-> "P", directory |-> HomeDir]}
    /\ hist = [faults_left |-> 0, edits |-> 0, polled |-> FALSE, dirty |-> FALSE,
               compare |-> FALSE, prompt |-> TRUE]
    /\ InitApp

SpecDocs == InitDocs /\ [][Next]_vars

\* the files of the watched trees whose names hold ".git"
WatchUniverse ==
    {Plain(<<X_PY>>), Plain(<<GIT, <<"c">>>>),
     [rel |-> <<GITIGNORE_FILE>>, data |-> <<<<"a", "/">>>>]}

\* a watched project tree apart from the staging directory, I/O not failing
InitWatch ==
    /\ fs \in {TreeFs(HomeDir, tree) : tree \in TreesOf(WatchUniverse)}
    /\ projects = {[project_name |-> "P", directory |-> HomeDir]}
    /\ hist = [faults_left |-> 0, edits |-> 0, polled |-> FALSE, dirty |-> FALSE,
               compare |-> FALSE, prompt |-> TRUE]
    /\ InitApp

SpecWatch == InitWatch /\ [][NextSched]_vars

\* the directory of a second project
OtherDir == <<<<"g">>>>

\* a file a previous run of the application left in the staging directory
StaleFile == temp_dir \o <<<<"o", "l", "d">>>>

\* Two projects with one file each, apart from the staging directory, which
\* may hold a file of a previous run; I/O not failing; the observer's thread
\* is not taken to start at once.
InitSwitch ==
    /\ fs \in {TreeFs(HomeDir, {Plain(<<X_PY>>)}) @@ TreeFs(OtherDir, {Plain(<<X_PY>>)}),
                WriteFile(TreeFs(HomeDir, {Plain(<<X_PY>>)})
                              @@ TreeFs(OtherDir, {Plain(<<X_PY>>)}),
                          StaleFile, <<>>)}
    /\ projects = {[project_name |-> "P", directory |-> HomeDir],
                   [project_name |-> "Q", directory |-> OtherDir]}
    /\ hist = [faults_left |-> 0, edits |-> 0, polled |-> FALSE, dirty |-> FALSE,
               compare |-> FALSE, prompt |-> FALSE]
    /\ InitApp

NextSwitch ==
    \/ SelectProject
    \/ delete_project
    \/ toggle_observer
    \/ ManualRefresh
    \/ RefreshSkipped
    \/ on_copy_individual_change
    \/ WalkDir
    \/ ProcessFile
    \/ RefreshEnd
    \/ check_queue
    \/ on_any_event
    \/ observer_start
    \/ ModifyFile

SpecSwitch == InitSwitch /\ [][NextSwitch]_vars

\* One project with one file, apart from the staging directory, which holds
\* a file of a previous run; deletions may fail; the observer's thread is
\* not taken to start at once.
InitIdle ==
    /\ fs = WriteFile(TreeFs(HomeDir, {Plain(<<X_PY>>)}), StaleFile, <<>>)
    /\ projects = {[project_name |-> "P", directory |-> HomeDir]}
    /\ hist = [faults_left |-> MaxFaults, edits |-> 0, polled |-> FALSE,
               dirty |-> FALSE, compare |-> FALSE, prompt |-> FALSE]
    /\ InitApp

NextIdle ==
    \/ SelectProject
    \/ delete_project
    \/ RefreshSkipped
    \/ on_paths_md_change
    \/ WalkDir
    \/ ProcessFile
    \/ RefreshEnd
    \/ check_queue
    \/ on_any_event
    \/ observer_start
    \/ ModifyFile

SpecIdle == InitIdle /\ [][NextIdle]_vars


(***************************************************************************)
(* Properties of a pass.                                                   *)
(***************************************************************************)
\* the absolute paths of the files the walking pass has accepted so far
AcceptedPaths == {pass.source_dir \o pass.accepted[i] : i \in 1..Len(pass.accepted)}

\* the relative paths the lines gathered for the manifest name
ListedPaths ==
    {rel \in {u.rel : u \in FileUniverse} :
        \E i \in 1..Len(pass.paths_md_lines) :
            pass.paths_md_lines[i] = MdHeading(Join(rel, <<"/">>))}

\* the project root and the staging directory lie apart
Apart(dir) == ~IsPrefix(temp_dir, dir) /\ ~IsPrefix(dir, temp_dir)

\* C1: at the end of any pass (here: of a project apart from the staging
\* directory), every entry present in the staging directory was written
\* during that pass; nothing an earlier pass left survives.
C1_StagingHoldsOnlyThisPass ==
    (last.status = "finished" /\ Apart(last.pass.source_dir))
    => Staging(fs) \subseteq last.pass.written

\* C2: within one pass no two source files are written to the same destination
\* name, and every flat copy the pass has made is still in the staging
\* directory, with the content of its source, whatever was written for the
\* files that came after it.
C2_NoFlatCopyReplaced ==
    Walking =>
        /\ \A c, d \in pass.copies : c.name = d.name => c.src = d.src
        /\ \A c \in pass.copies :
              /\ IsFile(fs, temp_dir \o <<c.name>>)
              /\ IsFile(fs, c.src) => fs[temp_dir \o <<c.name>>] = fs[c.src]

\* C7: during a pass no path with a .git segment is accepted, listed for the
\* manifest or copied, and no directory with a .git segment is listed,
\* whatever gitignore rules and include patterns are loaded.
C7_GitAlwaysRejected ==
    Walking =>
        /\ \A q \in AcceptedPaths : GIT \notin Range(q)
        /\ \A rel \in ListedPaths : GIT \notin Range(pass.source_dir \o rel)
        /\ \A c \in pass.copies : GIT \notin Range(c.src)
        /\ \A d \in pass.visited : GIT \notin Range(d)
        /\ \A q \in pass.examined : GIT \notin Range(Front(q))

\* a walk is over in which .git was met under a negated gitignore rule for it
C7_Witness ==
    /\ Walking /\ pass.walk = <<>> /\ pass.files = {}
    /\ pass.source_dir \o <<GIT>> \in pass.pruned
    /\ Beneath(fs, pass.source_dir \o <<GIT>>) # {}
    /\ \E i \in 1..Len(gitignore_spec) :
          ~gitignore_spec[i].include /\ gitignore_spec[i].body = GIT
    /\ pass.do_paths_md /\ pass.do_copy

\* C8: wherever the project root lies relative to the staging directory, no
\* pass accepts, lists or copies the staging directory or an entry inside it.
C8_StagingNeverSource ==
    Walking =>
        /\ \A q \in AcceptedPaths : ~IsPrefix(temp_dir, q)
        /\ \A c \in pass.copies : ~IsPrefix(temp_dir, c.src)

\* C9: a directory should_ignore rejects is pruned before descent: nothing
\* strictly beneath a pruned directory is listed, examined, accepted or
\* copied; no directory that is listed is one should_ignore rejects; and the
\* ignored-by-rule counter holds one for each pruned directory and one for each
\* file rejected, nothing for the descendants.
C9_PrunedBeforeDescent ==
    Walking =>
        /\ \A d \in pass.pruned :
              /\ should_ignore(d, TRUE)
              /\ \A q \in pass.visited \cup pass.examined \cup AcceptedPaths
                          \cup {c.src : c \in pass.copies}
                          \cup {pass.source_dir \o rel : rel \in ListedPaths} :
                    ~IsPrefix(d, q)
        /\ \A d \in pass.visited : d # pass.source_dir => ~should_ignore(d, TRUE)
        /\ pass.ignored_git_count =
              Cardinality(pass.pruned) + Cardinality(pass.ignored_files)

\* a walk is over that pruned a directory holding a directory and a file
C9_Witness ==
    /\ Walking /\ pass.walk = <<>> /\ pass.files = {}
    /\ \E d \in pass.pruned :
          /\ GIT \notin Range(d)
          /\ \E q \in Beneath(fs, d) : IsDir(fs, q)
          /\ \E q \in Beneath(fs, d) : IsFile(fs, q)
    /\ pass.ignored_git_count = 1

\* C10: with .include holding only *.py, no .gitignore, and a tree of one .py
\* file and one .md file, a pass reports one accepted file and one file
\* excluded by include-pattern mismatch.
C10_OnePyOneMd ==
    (/\ last.status = "finished"
     /\ last.pass.source_dir = HomeDir
     /\ Beneath(fs, HomeDir) =
            {HomeDir \o <<X_PY>>, HomeDir \o <<B_MD>>, HomeDir \o <<INCLUDE_FILE>>}
     /\ include_patterns = <<<<"*", ".", "p", "y">>>>
     /\ gitignore_spec = <<>>)
    => /\ Len(last.pass.accepted) = 1
       /\ last.pass.ignored_incl_count = 1

(***************************************************************************)
(* Properties of the watcher, the queue and the scheduling of passes.      *)
(***************************************************************************)
\* C3: refresh_files is never entered while an earlier invocation of it has
\* not returned, the wait in its error dialog included.
C3_SingleFlight == Len(stack) <= 1

\* C4: for each handler, the last two signals it forwarded are at least the
\* debounce delay apart, and the last event it was given falls in the debounce
\* window of the last signal it forwarded; so at every moment a burst within
\* one window has put exactly one signal on the queue.
C4_Debounced ==
    \A i \in 1..Len(watchers) :
        LET w == watchers[i]
        IN  /\ w.prev_sent # 0 => w.last_sent - w.prev_sent >= debounce_delay
            /\ w.last_handled # 0 =>
                  /\ w.last_sent # 0
                  /\ w.last_sent <= w.last_handled
                  /\ w.last_handled - w.last_sent < debounce_delay

\* a handler has forwarded two signals and has dropped an event
C4_Witness ==
    \E i \in 1..Len(watchers) :
        /\ watchers[i].prev_sent # 0
        /\ watchers[i].dropped
        /\ callback_queue # <<>>

\* nothing is pending anywhere: no event undelivered, no signal queued, no
\* pass running; only a further change or the user can start a pass
Quiescent ==
    /\ stack = <<>>
    /\ callback_queue = <<>>
    /\ \A i \in 1..Len(watchers) : watchers[i].events = <<>>

\* C5: with auto-refresh on and the observer running on the selected project,
\* every change to a file a pass would accept is followed by a pass that
\* starts after it: once nothing is pending any more, no such change is left
\* without its pass.
C5_ChangeFollowedByPass ==
    (Quiescent /\ Watching) => ~hist.dirty

\* C6: the queue between the watcher and the scheduler never holds more than
\* one pending refresh signal.
C6_AtMostOnePending == Len(callback_queue) <= 1

(***************************************************************************)
(* Failures within a pass.                                                 *)
(***************************************************************************)
\* C14: each per-file failure of a pass (a copy that raises, a rename that
\* raises while converting) is counted once in the error counter, leaves no
\* copy of the file in the staging directory, and does not stop the pass:
\* every file of every directory the walk listed has been processed.
C14_FailuresCounted ==
    (last.status = "finished" /\ Apart(last.pass.source_dir)) =>
        /\ last.pass.read_error_count = Cardinality(last.pass.failed)
        /\ \A q \in last.pass.failed :
              /\ \A c \in last.pass.copies : c.src # q
              /\ \A s \in Staging(fs) : IsFile(fs, q) => fs[s].data # fs[q].data
        /\ \A q \in DOMAIN fs :
              (IsFile(fs, q) /\ Front(q) \in last.pass.visited)
                  => q \in last.pass.examined

(***************************************************************************)
(* Flat names, include patterns and the documents of a pass.               *)
(***************************************************************************)
\* the flat name the claim gives a file: the segments of its relative path
\* joined with "-", and ".txt" after it when conversion is on
FlatName(rel, convert) ==
    Join(rel, <<"-">>) \o (IF convert THEN DOT_TXT ELSE <<>>)

\* C11: every flat copy a pass makes bears the flat name of its source;
\* a/x.txt and b/x.txt are copied under two distinct names, each with its own
\* content; and for any two accepted files with the same flat name the pass
\* leaves exactly one copy under that name, of one of the two, and counts
\* exactly one collision.
C11_FlatNamesAndCollisions ==
    (last.status = "finished" /\ last.pass.do_copy) =>
        LET P == last.pass
            acc == Range(P.accepted)
            N(rel) == FlatName(rel, P.do_convert)
            ax == <<<<"a">>, X_TXT>>
            bx == <<<<"b">>, X_TXT>>
        IN  /\ \A c \in P.copies :
                  c.name = N(SubSeq(c.src, Len(P.source_dir) + 1, Len(c.src)))
            /\ {ax, bx} \subseteq acc =>
                  /\ N(ax) # N(bx)
                  /\ \A rel \in {ax, bx} :
                        /\ IsFile(fs, temp_dir \o <<N(rel)>>)
                        /\ fs[temp_dir \o <<N(rel)>>] = fs[P.source_dir \o rel]
            /\ \A r1, r2 \in acc :
                  (r1 # r2 /\ N(r1) = N(r2)) =>
                      /\ Cardinality({c \in P.copies : c.name = N(r1)}) = 1
                      /\ IsFile(fs, temp_dir \o <<N(r1)>>)
                      /\ fs[temp_dir \o <<N(r1)>>] \in
                            {fs[P.source_dir \o r1], fs[P.source_dir \o r2]}
                      /\ P.collision_skips = 1

\* the base name of path q matches one of the loaded include patterns
BaseNameMatches(q) ==
    \E i \in 1..Len(include_patterns) : fnmatch(Last(q), include_patterns[i])

\* the directories beneath the root of the walking pass that should_ignore
\* keeps, with all the directories above them
KeptDirs ==
    {d \in Beneath(fs, pass.source_dir) :
        /\ IsDir(fs, d)
        /\ \A k \in (Len(pass.source_dir) + 1)..Len(d) :
              ~should_ignore(SubSeq(d, 1, k), TRUE)}

\* C17: should_include is true of every path while the pattern list is
\* empty, and otherwise true exactly of the paths whose base name matches a
\* pattern.  In a pass the patterns decide over files only: a file that is
\* not ignored is accepted exactly when its base name matches (or the list is
\* empty), whatever the names of the directories above it, and directories
\* are removed from the walk by should_ignore alone, so that at the end of
\* the walk every directory should_ignore keeps has been listed.
C17_IncludeByBaseName ==
    /\ \A q \in DOMAIN fs :
          should_include(q) <=> (include_patterns = <<>> \/ BaseNameMatches(q))
    /\ Walking =>
          /\ \A q \in pass.examined \ pass.ignored_files :
                q \in AcceptedPaths <=>
                    (include_patterns = <<>> \/ BaseNameMatches(q))
          /\ \A d \in pass.pruned : should_ignore(d, TRUE)
          /\ (pass.walk = <<>> /\ pass.files = {}) => KeptDirs \subseteq pass.visited

\* a walk under a non-empty pattern list is over that accepted a file of a
\* sub-directory whose name matches no pattern, and rejected a file for its
\* base name
C17_Witness ==
    /\ Walking /\ pass.walk = <<>> /\ pass.files = {}
    /\ include_patterns # <<>>
    /\ \E q \in AcceptedPaths :
          /\ Len(q) = Len(pass.source_dir) + 2
          /\ ~BaseNameMatches(Front(q))
    /\ pass.ignored_incl_count > 0

\* the marker a structure-only manifest binds a file to
FILE_MARKER == "<file>"

\* the structure-only manifest of a tree whose only directory is src, holding
\* the files f1 and f2 in this order: the nested mapping, written line by line
StructureDocument(f1, f2) ==
    <<<<"{">>,
      SRC \o <<":", "{">>,
      f1 \o <<":", FILE_MARKER>>,
      f2 \o <<":", FILE_MARKER>>,
      <<"}">>,
      <<"}">>>>

\* C19: a pass over a tree that holds src/main.py and src/util.py and nothing
\* else leaves in the staging directory a structure-only manifest: an entry
\* whose content is the nested mapping of src to main.py and util.py, each
\* bound to the file marker.
C19_StructureManifest ==
    (/\ last.status = "finished"
     /\ Range(last.pass.accepted) = {<<SRC, MAIN_PY>>, <<SRC, UTIL_PY>>}
     /\ last.pass.do_paths_md)
    => \E s \in Staging(fs) :
          /\ IsFile(fs, s)
          /\ fs[s].data \in {StructureDocument(MAIN_PY, UTIL_PY),
                             StructureDocument(UTIL_PY, MAIN_PY)}

(***************************************************************************)
(* One pass and the next.                                                  *)
(***************************************************************************)
\* C12: two consecutive passes that both ran to their end with the same
\* options, over the same source tree (a specification changes a tree only by
\* removing it, which ends a pass in the error dialog), with the patterns and
\* notes of the same files, accepting the same files in the same walk order,
\* no copy or rename failing in either, leave the staging directory with the
\* same entries and the same contents.
C12_Idempotent ==
    LET P == last.pass
        B == last.pass.before
    IN  (/\ last.status = "finished"
         /\ B.status = "finished"
         /\ B.do_paths_md = P.do_paths_md
         /\ B.do_copy = P.do_copy
         /\ B.do_convert = P.do_convert
         /\ B.accepted = P.accepted
         /\ B.failed = {} /\ P.failed = {})
        => StagingContent(fs) = B.out

\* C13: a pass that finds the source root missing, or not a directory, ends
\* in the error dialog having written nothing to the staging directory, and
\* leaves the staging directory without any entry.
C13_AbortLeavesStagingEmpty ==
    last.status = "aborted" =>
        /\ last.pass.written = {}
        /\ Staging(fs) = {}

\* a line of the manifest that opens a section
IsHeadingLine(line) ==
    Len(line) >= 4 /\ SubSeq(line, 1, 4) = <<"#", "#", "#", " ">>

\* where the sections of a document open, in order
HeadingPositions(doc) ==
    SelectSeq([i \in 1..Len(doc) |-> i], LAMBDA i : IsHeadingLine(doc[i]))

\* the lines of the i-th section of a document, after its heading
SectionLines(doc, i) ==
    LET pos == HeadingPositions(doc)
    IN  SubSeq(doc, pos[i] + 1, IF i < Len(pos) THEN pos[i + 1] - 1 ELSE Len(doc))

\* the notes store has an entry under the POSIX relative path of rel whose
\* value is not blank
HasNote(rel) ==
    \E n \in file_notes :
        /\ n[1] = Join(rel, <<"/">>)
        /\ \E k \in 1..Len(n[2]) : n[2][k] # " "

\* C20: the manifest a pass writes holds one section for each file the pass
\* accepted, in the order of the walk, whether the file was copied, skipped
\* as a collision or failed to copy; and a section carries a note, the
\* stripped text of the entry, exactly when the notes store has a non-blank
\* entry under the file's POSIX relative path.
C20_OneSectionPerAccepted ==
    LET P == last.pass
        md_output_path == temp_dir \o <<PATHS_MD_FILE>>
        doc == fs[md_output_path].data
    IN  (last.status = "finished" /\ md_output_path \in P.written) =>
            /\ P.do_paths_md
            /\ [i \in 1..Len(HeadingPositions(doc)) |-> doc[HeadingPositions(doc)[i]]]
                  = [i \in 1..Len(P.accepted) |-> MdHeading(Join(P.accepted[i], <<"/">>))]
            /\ \A i \in 1..Len(P.accepted) :
                  /\ <<"**Note:**">> \in Range(SectionLines(doc, i))
                        <=> HasNote(P.accepted[i])
                  /\ HasNote(P.accepted[i]) =>
                        \E n \in file_notes :
                            /\ n[1] = Join(P.accepted[i], <<"/">>)
                            /\ <<">", " ">> \o Strip(n[2])
                                  \in Range(SectionLines(doc, i))

\* a pass has written its manifest after one copy failed and one file was
\* skipped as a collision, one accepted file having a note and another a
\* blank entry
C20_Witness ==
    /\ last.status = "finished"
    /\ temp_dir \o <<PATHS_MD_FILE>> \in last.pass.written
    /\ last.pass.collision_skips = 1
    /\ last.pass.failed # {}
    /\ \E i \in 1..Len(last.pass.accepted) : HasNote(last.pass.accepted[i])
    /\ \E i \in 1..Len(last.pass.accepted) :
          /\ ~HasNote(last.pass.accepted[i])
          /\ \E n \in file_notes : n[1] = Join(last.pass.accepted[i], <<"/">>)

(***************************************************************************)
(* The watcher thread and the foreground.                                  *)
(***************************************************************************)
\* the events the observers have seen and not yet given to their handlers
EventsPending(ws) ==
    Cardinality(UNION {{<<i, k>> : k \in 1..Len(ws[i].events)} : i \in 1..Len(ws)})

\* a step of the watcher thread: a handler is given one event, while the
\* foreground stays where it is and no other program touches a tree
HandlerStep ==
    /\ EventsPending(watchers') = EventsPending(watchers) - 1
    /\ stack' = stack
    /\ hist'.edits = hist.edits

\* a step of the foreground thread inside refresh_files or one of its callers
ForegroundStep ==
    \/ stack' # stack
    \/ Running /\ pass' # pass

\* C16: a step of the watcher thread leaves the file system (the staging
\* directory with it), the gitignore rules, the include patterns, the notes,
\* the selected project, the options and the running pass as they are, and
\* does no more to the queue than put one "refresh" on it; and every change
\* of the staging directory is made by a step of the foreground thread.
C16_WatcherOnlySignals ==
    [][/\ HandlerStep =>
            /\ UNCHANGED <<fs, projects, selected_project, gitignore_spec,
                           include_patterns, file_notes, create_paths_md_var,
                           copy_individual_files_var, convert_copied_files_var,
                           auto_refresh_var, pass, last, poll_scheduled>>
            /\ callback_queue' \in {callback_queue, Append(callback_queue, "refresh")}
       /\ StagingContent(fs') # StagingContent(fs) => ForegroundStep]_vars

\* a handler has put a signal on the queue while a pass was walking
C16_Witness ==
    /\ Walking
    /\ callback_queue # <<>>
    /\ \E i \in 1..Len(watchers) :
          watchers[i].last_sent = clock /\ watchers[i].events = <<>>

(***************************************************************************)
(* C15.  An exception of the walk stays inside refresh_files.              *)
(***************************************************************************)
\* C15: an exception raised during the walk does not leave refresh_files.
\* After a pass that ended by an exception the foreground is idle, the
\* manifest is not in staging, and every flat copy the pass made is still
\* there.  Whenever the foreground is idle the queue poll is armed, and with
\* auto-refresh on and the project directory present the observer of the
\* selected project runs, so that a later change starts a pass.
C15_ExceptionCaught ==
    /\ last.status = "failed" =>
          /\ stack = <<>>
          /\ ~Exists(fs, temp_dir \o <<PATHS_MD_FILE>>)
          /\ last.pass.copies # {} => last.pass.do_copy
          /\ \A c \in last.pass.copies : IsFile(fs, temp_dir \o <<c.name>>)
    /\ stack = <<>> => poll_scheduled
    /\ (stack = <<>> /\ selected_project.set /\ auto_refresh_var
            /\ IsDir(fs, ProjectDir)) => Watching

\* a pass ended by an exception after it had made a flat copy; the foreground
\* is idle with the poll armed, the observer runs, and a signal of a later
\* change waits in the queue
C15_Witness ==
    /\ last.status = "failed"
    /\ last.pass.copies # {}
    /\ stack = <<>> /\ poll_scheduled /\ Watching
    /\ callback_queue # <<>>

(***************************************************************************)
(* C18.  The include patterns follow the .include file.                    *)
(***************************************************************************)
\* the step begins the walk of a pass
PassBegins ==
    /\ Len(stack') = Len(stack) + 1
    /\ Last(stack').pc = "walk"

\* the step is a save of the .include editor
EditorSaves == hist'.edits = hist.edits + 1 /\ PassBegins

\* C18: a pass begun by selecting the project, by a save of the .include
\* editor or by an auto-refresh filters with the patterns of the .include
\* file as it is when the pass begins.
C18_PatternsFollowInclude ==
    [][(PassBegins /\ (Last(stack').caller \in {"load", "poll"} \/ EditorSaves))
          => include_patterns' = load_include_patterns(fs', selected_project')]_vars

(***************************************************************************)
(* The documents and the counters of a completed pass.                     *)
(***************************************************************************)
\* C22: a completed pass with the manifest option on, whose reset left
\* nothing behind, has written the manifest document into the staging
\* directory, also when it accepted no file.
C22_ManifestEveryPass ==
    (/\ last.status = "finished"
     /\ last.pass.do_paths_md
     /\ last.pass.undeleted = {})
    => /\ temp_dir \o <<PATHS_MD_FILE>> \in last.pass.written
       /\ IsFile(fs, temp_dir \o <<PATHS_MD_FILE>>)

\* C21: at the end of a completed pass every flat copy the pass counts as
\* made is in the staging directory with the content of its source: neither
\* the manifest document nor the copy of the context file has replaced it.
C21_CopiesSurviveDocuments ==
    (last.status = "finished" /\ last.pass.do_copy) =>
        \A c \in last.pass.copies :
            /\ IsFile(fs, temp_dir \o <<c.name>>)
            /\ IsFile(fs, c.src) => fs[temp_dir \o <<c.name>>] = fs[c.src]

\* the names under which the flat copies of the last pass are in the staging
\* directory
CopiesLeft ==
    {c.name : c \in {d \in last.pass.copies : IsFile(fs, temp_dir \o <<d.name>>)}}

\* C25: at the end of a completed pass with individual copies on, the copied
\* counter is the number of flat copies the pass left in the staging
\* directory, and the accepted files are as many as the copies, the
\* collisions and the files whose copy or rename failed, together.
C25_CountersAddUp ==
    (last.status = "finished" /\ last.pass.do_copy) =>
        /\ last.pass.copied_count = Cardinality(CopiesLeft)
        /\ Len(last.pass.accepted) =
              last.pass.copied_count + last.pass.collision_skips
                  + Cardinality(last.pass.failed)

(***************************************************************************)
(* The watcher's filter, the poll and the observers.                       *)
(***************************************************************************)
\* path lies under a directory named .git or under the staging directory
UnderGitOrStaging(path) ==
    \/ GIT \in Range(Front(path))
    \/ IsPrefix(temp_dir, path)

\* C26: on_any_event's path filter agrees with the walker.  Of the events an
\* observer has still to hand to its handler, one for a file that a pass on
\* the selected project would accept passes the filter and reaches the
\* debounce step, and one for a directory, or for a path under .git or
\* under the staging directory, does not pass it.
C26_FilterAgreesWithWalker ==
    \A i \in 1..Len(watchers) :
        \A k \in 1..Len(watchers[i].events) :
            LET event == watchers[i].events[k]
            IN  /\ (/\ ~event.is_directory
                    /\ IsFile(fs, event.src_path)
                    /\ Acceptable(event.src_path)) => Forwardable(event)
                /\ (event.is_directory \/ UnderGitOrStaging(event.src_path))
                       => ~Forwardable(event)

\* the step is a step of the watcher thread in which the handler of
\* observer i is given the oldest event of that observer
HandlerStepOf(i) ==
    /\ HandlerStep
    /\ watchers[i].events # <<>>
    /\ IF Len(watchers') = Len(watchers)
       THEN watchers'[i].events = Tail(watchers[i].events)
       ELSE watchers' = RemoveAt(watchers, i)

\* C23: the observer of a previously selected project has no effect once
\* another project is selected and watched.  While the foreground is idle,
\* the queue is empty and the observer of the selected project is in place,
\* no handler of another observer, one created for another project's tree,
\* puts a signal on the queue (the next poll would start a pass on the newly
\* selected project for it).
C23_StoppedWatcherSilent ==
    [][\A i \in 1..Len(watchers) :
          (/\ HandlerStepOf(i)
           /\ Watching /\ stack = <<>> /\ callback_queue = <<>>
           /\ i # observer
           /\ watchers[i].watch_path # ProjectDir)
          => callback_queue' = callback_queue]_vars

\* the observers whose thread runs: started and not stopped
RunningObservers == {i \in 1..Len(watchers) : watchers[i].alive /\ watchers[i].started}

\* C24: at most one observer runs, and an observer that runs is the one the
\* application refers to, with a project selected, auto-refresh on and the
\* root of the selected project as its watch path.
C24_OneObserver ==
    /\ Cardinality(RunningObservers) <= 1
    /\ \A i \in RunningObservers :
          /\ i = observer
          /\ selected_project.set
          /\ auto_refresh_var
          /\ watchers[i].watch_path = ProjectDir

\* the step takes signals off the queue and is no drain by start_observer
\* (which follows a click on the auto-refresh box, or creates an observer
\* or clears the box)
PollTakes ==
    /\ Len(callback_queue') < Len(callback_queue)
    /\ Len(watchers') <= Len(watchers)
    /\ auto_refresh_var' = auto_refresh_var
    /\ hist'.edits = hist.edits

\* C27: a pass begun by the poll is begun for a signal taken off the queue
\* while a project is selected and auto-refresh is on.  A poll that takes a
\* signal while no project is selected or auto-refresh is off starts nothing
\* and leaves the file system, the staging directory with it, as it is.  A
\* poll takes one signal, the oldest, and the signal is gone from the queue.
C27_PollStartsOrDiscards ==
    [][/\ (PassBegins /\ Last(stack').caller = "poll")
              => /\ callback_queue # <<>>
                 /\ callback_queue' = Tail(callback_queue)
                 /\ selected_project.set /\ auto_refresh_var
       /\ (PollTakes /\ ~(selected_project.set /\ auto_refresh_var))
              => /\ stack' = stack /\ pass' = pass /\ last' = last
                 /\ fs' = fs
       /\ PollTakes => callback_queue' = Tail(callback_queue)]_vars

\* a signal is the oldest of the queue while auto-refresh is off or no
\* project is selected, the staging directory holds output, and the poll is
\* due
C27_Witness ==
    /\ callback_queue # <<>>
    /\ ~(selected_project.set /\ auto_refresh_var)
    /\ Staging(fs) # {}
    /\ stack = <<>> /\ poll_scheduled

\* the step is taken by the foreground: no other program edits a tree (nor
\* is the auto-refresh box clicked), no handler is given an event and no
\* observer's thread starts
ForegroundOnly ==
    /\ hist'.edits = hist.edits
    /\ EventsPending(watchers') >= EventsPending(watchers)
    /\ Len(watchers') = Len(watchers)
    /\ \A i \in 1..Len(watchers) : watchers'[i].started = watchers[i].started

\* C28: while no project is selected, a refresh trigger (the "Refresh
\* Output" button, an option box, a signal taken by the poll) leaves the
\* staging directory and all the file system, the gitignore rules, the
\* include patterns, the notes, the observers and the reference to the
\* current observer as they are, and starts no pass.
C28_NoProjectNoEffect ==
    [][(/\ ~selected_project.set
        /\ ~selected_project'.set
        /\ ForegroundOnly)
       => /\ fs' = fs
          /\ gitignore_spec' = gitignore_spec
          /\ include_patterns' = include_patterns
          /\ file_notes' = file_notes
          /\ watchers' = watchers
          /\ observer' = observer
          /\ stack' = stack /\ pass' = pass]_vars

\* no project is selected, the staging directory holds a file, an observer
\* still runs and a signal waits for the poll
C28_Witness ==
    /\ ~selected_project.set
    /\ Staging(fs) # {}
    /\ RunningObservers # {}
    /\ callback_queue # <<>>
    /\ stack = <<>> /\ poll_scheduled
====
